---- MODULE Spec2Model ----
(***************************************************************************)
(* Model of HttpControlCommand::run (src/src/commands/http_control.rs):    *)
(* one invocation resolves one intent against a device's capability        *)
(* schema and issues at most one control call.                             *)
(*                                                                         *)
(* Strings whose case matters (option names, requested scene/mode names)   *)
(* are sequences of ASCII codes; instance names, field names and error     *)
(* messages are only ever compared exactly and are TLA+ strings.           *)
(* Option<T> is a sequence of length 0 (None) or 1 (Some).                 *)
(***************************************************************************)
EXTENDS Integers, Sequences, FiniteSets, TLC

\* ------------------------------------------------------------------ bounds
\* options of one Enum
MaxOpts == 2
\* options of all Enums of one scene set / one Struct
MaxTotalOpts == 3
\* scene capabilities of a device
MaxSceneCaps == 2
\* fields of a Struct
MaxFields == 2

\* ----------------------------------------------------------- input samples
\* "on", "On", "off", "ON" as ASCII
s_on == <<111, 110>>
s_On == <<79, 110>>
s_off == <<111, 102, 102>>
s_ON == <<79, 78>>

NamePool == {s_on, s_On, s_off}
ReqNames == {s_on, s_ON, s_off}

RangeVals == {1, 3, 100}
PercentInputs == {0, 2, 4, 50, 255}
KelvinInputs == {0, 2, 4, 50, 6500}
ChannelVals == {0, 128, 255}
AlphaVals == {0, 255}
\* --sensitivity, --auto-color, --color of the music intent
MusicSettings ==
    {[sensitivity |-> 0, auto_color |-> FALSE, color |-> <<>>],
     [sensitivity |-> 50, auto_color |-> TRUE, color |-> <<>>],
     [sensitivity |-> 255, auto_color |-> TRUE, color |-> << <<255, 0, 128, 255>> >>]}

None == <<>>
Some(x) == <<x>>
IsSome(o) == Len(o) = 1
Unwrap(o) == o[1]

\* --------------------------------------------------------- pure functions
\* u8::to_ascii_lowercase
ToAsciiLowercase(c) == IF c \in 65..90 THEN c + 32 ELSE c

\* str::eq_ignore_ascii_case, as called at lines 129 and 198
EqExactCase(a, b) == a = b
EqIgnoreAsciiCase(a, b) ==
    /\ Len(a) = Len(b)
    /\ \A i \in 1..Len(a) : ToAsciiLowercase(a[i]) = ToAsciiLowercase(b[i])

\* u32 `<<`: the top n bits are shifted out of the 32-bit word
Shl(x, n) == (x % (2 ^ (32 - n))) * (2 ^ n)

\* u32 `|`
RECURSIVE BitOr(_, _)
BitOr(a, b) ==
    IF a = 0 THEN b
    ELSE IF b = 0 THEN a
    ELSE (IF a % 2 = 1 \/ b % 2 = 1 THEN 1 ELSE 0) + 2 * BitOr(a \div 2, b \div 2)

\* ((r as u32) << 16) | ((g as u32) << 8) | (b as u32); color is the
\* [r, g, b, a] array returned by to_rgba8()
PackRgbWithAlpha(color) ==
    BitOr(BitOr(BitOr(Shl(color[1], 16), Shl(color[2], 8)), color[3]), Shl(color[4] % 2, 24))
PackRgb(color) ==
    BitOr(BitOr(Shl(color[1], 16), Shl(color[2], 8)), color[3])

Max2(a, b) == IF a >= b THEN a ELSE b
Min2(a, b) == IF a <= b THEN a ELSE b

\* (input).max(min).min(max)
ClampMinOnly(input, min, max) == Max2(input, min)
ClampValue(input, min, max) == Min2(Max2(input, min), max)

\* ------------------------------------------------------------ data model
IntegerParams(min, max) == [type |-> "Integer", min |-> min, max |-> max]
EnumParams(names, base) ==
    [type |-> "Enum",
     options |-> [i \in 1..Len(names) |-> [name |-> names[i], value |-> base + i]]]
StructParams(fields) == [type |-> "Struct", fields |-> fields]

Capability(instance, parameters) == [instance |-> instance, parameters |-> parameters]

SeqsUpTo(S, n) == UNION {[1..k -> S] : k \in 0..n}

\* Device::capability_by_instance: first capability with that instance name
CapabilityByInstance(dev, instance) ==
    LET hits == {i \in 1..Len(dev) : dev[i].instance = instance}
    IN IF hits = {} THEN None
       ELSE Some(dev[CHOOSE i \in hits : \A k \in hits : i <= k])

\* DeviceCapability::enum_parameter_by_name: value of the option whose name
\* is exactly `name`
EnumParameterByName(cap, name) ==
    IF cap.parameters.type # "Enum" THEN None
    ELSE LET opts == cap.parameters.options
             hits == {i \in 1..Len(opts) : opts[i].name = name}
         IN IF hits = {} THEN None
            ELSE Some(opts[CHOOSE i \in hits : \A k \in hits : i <= k].value)

\* ------------------------------------------------- inputs and environment
\* clap: `scene` / `mode` are required unless `list` is present
SubCommand ==
    {[kind |-> "On"], [kind |-> "Off"]}
    \cup {[kind |-> "Brightness", percent |-> p] : p \in PercentInputs}
    \cup {[kind |-> "Temperature", kelvin |-> k] : k \in KelvinInputs}
    \cup {[kind |-> "Color", color |-> <<r, g, b, a>>] :
            r \in ChannelVals, g \in ChannelVals, b \in ChannelVals, a \in AlphaVals}
    \cup {[kind |-> "Scene", list |-> FALSE, scene |-> Some(n)] : n \in ReqNames}
    \cup {[kind |-> "Scene", list |-> TRUE, scene |-> n] : n \in {None, Some(s_on)}}
    \cup {[kind |-> "Music", list |-> FALSE, mode |-> Some(n),
           sensitivity |-> m.sensitivity, auto_color |-> m.auto_color, color |-> m.color] :
            n \in ReqNames, m \in MusicSettings}
    \cup {[kind |-> "Music", list |-> TRUE, mode |-> n,
           sensitivity |-> m.sensitivity, auto_color |-> m.auto_color, color |-> m.color] :
            n \in {None, Some(s_on)}, m \in MusicSettings}

\* Shape of one schema position: an Enum with these option names, or
\* something else
Shapes ==
    {[enum |-> TRUE, names |-> ns] : ns \in SeqsUpTo(NamePool, MaxOpts)}
    \cup {[enum |-> FALSE, names |-> <<>>]}
RECURSIVE TotalOpts(_)
TotalOpts(shapes) ==
    IF shapes = <<>> THEN 0 ELSE Len(Head(shapes).names) + TotalOpts(Tail(shapes))

\* Struct fields: named "musicMode" (Enum or Integer) or "sensitivity";
\* option values identify their position
MusicFieldShapes ==
    {[field_name |-> "musicMode", shape |-> sh] : sh \in Shapes}
    \cup {[field_name |-> "sensitivity", shape |-> [enum |-> FALSE, names |-> <<>>]]}
FieldsOf(fshapes) ==
    [fi \in 1..Len(fshapes) |->
        [field_name |-> fshapes[fi].field_name,
         field_type |-> IF fshapes[fi].shape.enum
                        THEN EnumParams(fshapes[fi].shape.names, 10 * fi)
                        ELSE IntegerParams(0, 100)]]
MusicStructPool ==
    {StructParams(FieldsOf(fs)) :
        fs \in {f \in SeqsUpTo(MusicFieldShapes, MaxFields) :
                    TotalOpts([i \in 1..Len(f) |-> f[i].shape]) <= MaxTotalOpts}}

\* Schemas a vendor may attach to the instance an intent looks up

ParamsFor(instance) ==
    CASE instance = "powerSwitch" ->
            {EnumParams(ns, 0) : ns \in SeqsUpTo(NamePool, MaxOpts)}
            \cup {IntegerParams(0, 1)}
      [] instance \in {"brightness", "colorTemperatureK"} ->
            {IntegerParams(lo, hi) : lo \in RangeVals, hi \in RangeVals}
            \cup {EnumParams(<<s_on>>, 0), StructParams(<<>>)}
      [] instance = "colorRgb" ->
            {IntegerParams(0, 16777215), EnumParams(<<s_on>>, 0)}
      [] instance = "musicMode" ->
            MusicStructPool
            \cup {IntegerParams(0, 1), EnumParams(<<s_on, s_off>>, 0)}
      [] OTHER -> {}

TargetInstance(c) ==
    CASE c.kind \in {"On", "Off"} -> "powerSwitch"
      [] c.kind = "Brightness" -> "brightness"
      [] c.kind = "Temperature" -> "colorTemperatureK"
      [] c.kind = "Color" -> "colorRgb"
      [] c.kind = "Music" -> "musicMode"
      [] OTHER -> "none"

OtherCap == Capability("online", IntegerParams(0, 1))

\* Devices get_device_by_id may return for the intent: the looked-up
\* instance is absent, or present behind another capability
DevicePool(c) ==
    {<<>>, <<OtherCap>>}
    \cup {<<OtherCap, Capability(TargetInstance(c), p)>> : p \in ParamsFor(TargetInstance(c))}

\* Scene capabilities get_device_scenes may return: Enum capabilities whose
\* option values identify their position, or a capability of another type
SceneInstance(ci) == IF ci = 1 THEN "lightScene" ELSE IF ci = 2 THEN "diyScene" ELSE "snapshot"
SceneCapsOf(shapes) ==
    [ci \in 1..Len(shapes) |->
        Capability(SceneInstance(ci),
                   IF shapes[ci].enum THEN EnumParams(shapes[ci].names, 10 * ci)
                   ELSE IntegerParams(0, 1))]
SceneCapsPool ==
    {SceneCapsOf(sh) :
        sh \in {x \in SeqsUpTo(Shapes, MaxSceneCaps) : TotalOpts(x) <= MaxTotalOpts}}

\* ------------------------------------------------------------------ state
VARIABLES
    cmd,          \* self.cmd
    pc,           \* position in run()
    device,       \* Option<Device>: the fetched capability list
    scene_caps,   \* result of get_device_scenes
    cap,          \* Option<capability> selected for the control call
    value,        \* Option<resolved control value>
    ci, oi,       \* loop positions: capability index, option index
    music_mode,   \* Option<value> captured by the activate closure
    examined,     \* options visited so far, as <<ci, oi>>
    printed,      \* names written by println!("{}", opt.name)
    phases,       \* history of completed phases
    calls,        \* control_device calls issued
    result        \* "running", "ok" or the error the run ended with

vars == <<cmd, pc, device, scene_caps, cap, value, ci, oi, music_mode,
          examined, printed, phases, calls, result>>

E_TRANSPORT == "transport failure"
E_NO_SCENE == "scene was not found"
E_UNEXPECTED_TYPE == "unexpected type"
E_NO_MUSICMODE_FIELD == "musicMode not found in"
E_NO_MODE == "mode not found"
E_NO_ONOFF == "powerSwitch has no on/off!?"
NoCapability(instance) == "device has no " \o instance
UnexpectedParameterType(instance) == "unexpected parameter type for " \o instance

Init ==
    /\ cmd \in SubCommand
    /\ pc = "start"
    /\ device = None
    /\ scene_caps = <<>>
    /\ cap = None
    /\ value = None
    /\ ci = 0
    /\ oi = 0
    /\ music_mode = None
    /\ examined = <<>>
    /\ printed = <<>>
    /\ phases = <<>>
    /\ calls = <<>>
    /\ result = "running"

\* run() returns r: Ok(()) at line 134 or 228, or an error via `?` / bail!
Finish(r) ==
    /\ pc' = "done"
    /\ result' = r
Fail(e) == Finish(e)
ReturnOk == Finish("ok")

\* lines 56-57: api_client()? and get_device_by_id(..).await?
GetDeviceFails ==
    /\ pc = "start"
    /\ Fail(E_TRANSPORT)
    /\ UNCHANGED <<cmd, device, scene_caps, cap, value, ci, oi, music_mode,
                   examined, printed, phases, calls>>

GetDevice ==
    /\ pc = "start"
    /\ \E d \in DevicePool(cmd) : device' = Some(d)
    /\ pc' = "match"
    /\ phases' = Append(phases, "fetch")
    /\ UNCHANGED <<cmd, scene_caps, cap, value, ci, oi, music_mode,
                   examined, printed, calls, result>>

\* Outcome of one match arm that resolves (capability, value) in one go:
\* the capability is absent, the value cannot be resolved (error e), or
\* both are found and the run proceeds to the control call
Resolve(instance, c, v, e) ==
    IF ~IsSome(c)
    THEN /\ Fail(NoCapability(instance))
         /\ UNCHANGED <<cap, value, phases>>
    ELSE IF ~IsSome(v)
    THEN /\ Fail(e)
         /\ cap' = c
         /\ phases' = Append(phases, "lookup")
         /\ UNCHANGED value
    ELSE /\ pc' = "control"
         /\ cap' = c
         /\ value' = v
         /\ phases' = phases \o <<"lookup", "resolve">>
         /\ UNCHANGED result

\* lines 66-69
PowerLiteral(c) == IF c.kind = "On" THEN s_on ELSE s_off

\* lines 60-72
Power ==
    /\ pc = "match"
    /\ cmd.kind \in {"On", "Off"}
    /\ LET c == CapabilityByInstance(Unwrap(device), "powerSwitch")
           v == IF IsSome(c) THEN EnumParameterByName(Unwrap(c), PowerLiteral(cmd)) ELSE None
       IN Resolve("powerSwitch", c, v, E_NO_ONOFF)
    /\ UNCHANGED <<cmd, device, scene_caps, ci, oi, music_mode, examined, printed, calls>>

\* lines 83-89 and 98-104: the match on cap.parameters
IntegerValue(parameters, input) ==
    IF parameters.type = "Integer"
    THEN Some(ClampValue(input, parameters.min, parameters.max))
    ELSE None

\* lines 79-89
Brightness ==
    /\ pc = "match"
    /\ cmd.kind = "Brightness"
    /\ LET c == CapabilityByInstance(Unwrap(device), "brightness")
           v == IF IsSome(c) THEN IntegerValue(Unwrap(c).parameters, cmd.percent) ELSE None
       IN Resolve("brightness", c, v, UnexpectedParameterType("brightness"))
    /\ UNCHANGED <<cmd, device, scene_caps, ci, oi, music_mode, examined, printed, calls>>

\* lines 94-104
Temperature ==
    /\ pc = "match"
    /\ cmd.kind = "Temperature"
    /\ LET c == CapabilityByInstance(Unwrap(device), "colorTemperatureK")
           v == IF IsSome(c) THEN IntegerValue(Unwrap(c).parameters, cmd.kelvin) ELSE None
       IN Resolve("colorTemperatureK", c, v, UnexpectedParameterType("colorTemperatureK"))
    /\ UNCHANGED <<cmd, device, scene_caps, ci, oi, music_mode, examined, printed, calls>>

\* lines 109-114: the schema of colorRgb is not inspected
Color ==
    /\ pc = "match"
    /\ cmd.kind = "Color"
    /\ LET c == CapabilityByInstance(Unwrap(device), "colorRgb")
       IN Resolve("colorRgb", c, Some(PackRgb(cmd.color)), E_UNEXPECTED_TYPE)
    /\ UNCHANGED <<cmd, device, scene_caps, ci, oi, music_mode, examined, printed, calls>>

\* line 120: get_device_scenes(..).await?
GetDeviceScenesFails ==
    /\ pc = "match"
    /\ cmd.kind = "Scene"
    /\ Fail(E_TRANSPORT)
    /\ UNCHANGED <<cmd, device, scene_caps, cap, value, ci, oi, music_mode,
                   examined, printed, phases, calls>>

GetDeviceScenes ==
    /\ pc = "match"
    /\ cmd.kind = "Scene"
    /\ scene_caps' \in SceneCapsPool
    /\ pc' = "scene_loop"
    /\ ci' = 1
    /\ oi' = 1
    /\ phases' = Append(phases, "lookup")
    /\ UNCHANGED <<cmd, device, cap, value, music_mode, examined, printed, calls, result>>

\* line 129: scene.eq_ignore_ascii_case(&opt.name)
SceneMatches(scene, opt) == EqIgnoreAsciiCase(scene, opt.name)

\* line 126: `if *list` is tested before the requested name
SceneListingUnlessNamed == cmd.list /\ ~IsSome(cmd.scene)
SceneListing == cmd.list

\* lines 130-131: control_device(&device, &cap, opt.value.clone())
SceneControlArgsFirstCap(c, opt) == [cap |-> scene_caps[1], value |-> opt.value]
SceneControlArgs(c, opt) == [cap |-> c, value |-> opt.value]

\* lines 122-142, one step of the nested loops.  ci and oi are the
\* iterators' positions: the next capability / option to be yielded.
SceneLoop ==
    /\ pc = "scene_loop"
    /\ ci <= Len(scene_caps)
    /\ LET c == scene_caps[ci] IN
       IF c.parameters.type # "Enum"
       THEN /\ Fail(E_UNEXPECTED_TYPE)
            /\ UNCHANGED <<cap, value, ci, oi, examined, printed, phases>>
       ELSE IF oi > Len(c.parameters.options)
       THEN /\ ci' = ci + 1
            /\ oi' = 1
            /\ UNCHANGED <<pc, result, cap, value, examined, printed, phases>>
       ELSE LET opt == c.parameters.options[oi] IN
            /\ oi' = oi + 1
            /\ examined' = Append(examined, <<ci, oi>>)
            /\ UNCHANGED ci
            /\ IF SceneListing
               THEN /\ printed' = Append(printed, opt.name)
                    /\ UNCHANGED <<pc, result, cap, value, phases>>
               ELSE IF IsSome(cmd.scene) /\ SceneMatches(Unwrap(cmd.scene), opt)
               THEN /\ cap' = Some(SceneControlArgs(c, opt).cap)
                    /\ value' = Some(SceneControlArgs(c, opt).value)
                    /\ pc' = "control"
                    /\ phases' = Append(phases, "resolve")
                    /\ UNCHANGED <<result, printed>>
               ELSE UNCHANGED <<pc, result, cap, value, printed, phases>>
    /\ UNCHANGED <<cmd, device, scene_caps, music_mode, calls>>

\* lines 144-146 and 228: what the run returns once the loops are exhausted
SceneEndResultOk == "ok"
SceneEndResult == IF IsSome(cmd.scene) THEN E_NO_SCENE ELSE "ok"

SceneEnd ==
    /\ pc = "scene_loop"
    /\ ci > Len(scene_caps)
    /\ Finish(SceneEndResult)
    /\ UNCHANGED <<cmd, device, scene_caps, cap, value, ci, oi, music_mode,
                   examined, printed, phases, calls>>

\* lines 165-180: the field for_each_music_mode settles on, 0 if none.
\* The loop returns or bails at the first field named "musicMode".
LastMusicModeField(fields) ==
    LET hits == {i \in 1..Len(fields) : fields[i].field_name = "musicMode"}
    IN IF hits = {} THEN 0 ELSE CHOOSE i \in hits : \A k \in hits : i >= k
FirstMusicModeField(fields) ==
    LET hits == {i \in 1..Len(fields) : fields[i].field_name = "musicMode"}
    IN IF hits = {} THEN 0 ELSE CHOOSE i \in hits : \A k \in hits : i <= k

\* lines 155-168: capability lookup and entry into for_each_music_mode
\* (called from line 187 or 196; clap guarantees list or Some(mode))
Music ==
    /\ pc = "match"
    /\ cmd.kind = "Music"
    /\ LET c == CapabilityByInstance(Unwrap(device), "musicMode") IN
       IF ~IsSome(c)
       THEN /\ Fail(NoCapability("musicMode"))
            /\ UNCHANGED <<cap, ci, oi, phases>>
       ELSE /\ cap' = c
            /\ phases' = Append(phases, "lookup")
            /\ LET parameters == Unwrap(c).parameters IN
               IF parameters.type # "Struct"
               THEN Fail(E_UNEXPECTED_TYPE) /\ UNCHANGED <<ci, oi>>
               ELSE LET f == FirstMusicModeField(parameters.fields) IN
                    IF f = 0
                    THEN Fail(E_NO_MUSICMODE_FIELD) /\ UNCHANGED <<ci, oi>>
                    ELSE IF parameters.fields[f].field_type.type # "Enum"
                    THEN Fail(E_UNEXPECTED_TYPE) /\ UNCHANGED <<ci, oi>>
                    ELSE /\ pc' = "music_loop"
                         /\ ci' = f
                         /\ oi' = 1
                         /\ UNCHANGED result
    /\ UNCHANGED <<cmd, device, scene_caps, value, music_mode, examined, printed, calls>>

\* line 198: opt.name.eq_ignore_ascii_case(mode)
ModeMatches(opt, mode) == EqIgnoreAsciiCase(opt.name, mode)

\* lines 169-174 with the closures of lines 188-191 and 197-206: one option
MusicLoop ==
    /\ pc = "music_loop"
    /\ LET options == Unwrap(cap).parameters.fields[ci].field_type.options IN
       IF oi > Len(options)
       THEN /\ pc' = "music_end"
            /\ UNCHANGED <<oi, examined, printed, music_mode>>
       ELSE LET opt == options[oi] IN
            /\ oi' = oi + 1
            /\ examined' = Append(examined, <<ci, oi>>)
            /\ IF cmd.list
               THEN /\ printed' = Append(printed, opt.name)
                    /\ UNCHANGED <<pc, music_mode>>
               ELSE IF ModeMatches(opt, Unwrap(cmd.mode))
               THEN /\ music_mode' = Some(opt.value)
                    /\ pc' = "music_end"
                    /\ UNCHANGED printed
               ELSE UNCHANGED <<pc, music_mode, printed>>
    /\ UNCHANGED <<cmd, device, scene_caps, cap, value, ci, phases, calls, result>>

\* lines 213-221: serde_json::json!({..}); a None rgb serialises as null
MusicValueClampedSensitivity(mm, c) ==
    [musicMode |-> mm,
     sensitivity |-> Min2(c.sensitivity, 100),
     autoColor |-> IF c.auto_color THEN 1 ELSE 0,
     rgb |-> IF IsSome(c.color) THEN Some(PackRgb(Unwrap(c.color))) ELSE None]
MusicValue(mm, c) ==
    [musicMode |-> mm,
     sensitivity |-> c.sensitivity,
     autoColor |-> IF c.auto_color THEN 1 ELSE 0,
     rgb |-> IF IsSome(c.color) THEN Some(PackRgb(Unwrap(c.color))) ELSE None]

\* lines 193-194 (list) and 208-221 (activate), after for_each_music_mode
MusicEnd ==
    /\ pc = "music_end"
    /\ IF cmd.list
       THEN ReturnOk /\ UNCHANGED <<value, phases>>
       ELSE IF ~IsSome(music_mode)
       THEN Fail(E_NO_MODE) /\ UNCHANGED <<value, phases>>
       ELSE /\ value' = Some(MusicValue(Unwrap(music_mode), cmd))
            /\ pc' = "control"
            /\ phases' = Append(phases, "resolve")
            /\ UNCHANGED result
    /\ UNCHANGED <<cmd, device, scene_caps, cap, ci, oi, music_mode,
                   examined, printed, calls>>

\* Where run() continues after a control call that succeeded: line 134
\* returns, the other arms fall through to line 228
AfterControlNoReturn == IF cmd.kind = "Scene" THEN "scene_loop" ELSE "done"
AfterControl == "done"

\* lines 75, 90, 105, 115, 130-132, 222: client.control_device(..).await?
ControlDevice ==
    /\ pc = "control"
    /\ \E ok \in BOOLEAN :
        /\ calls' = Append(calls, [cap |-> Unwrap(cap), value |-> Unwrap(value), ok |-> ok])
        /\ IF ~ok THEN Fail(E_TRANSPORT)
           ELSE /\ pc' = AfterControl
                /\ result' = IF AfterControl = "done" THEN "ok" ELSE result
    /\ phases' = Append(phases, "control")
    /\ UNCHANGED <<cmd, device, scene_caps, cap, value, ci, oi, music_mode,
                   examined, printed>>

Next ==
    \/ GetDeviceFails
    \/ GetDevice
    \/ Power
    \/ Brightness
    \/ Temperature
    \/ Color
    \/ GetDeviceScenesFails
    \/ GetDeviceScenes
    \/ SceneLoop
    \/ SceneEnd
    \/ Music
    \/ MusicLoop
    \/ MusicEnd
    \/ ControlDevice

Spec == Init /\ [][Next]_vars

\* ======================================================================
\* Properties
\* ======================================================================

\* Case-insensitive name equality stated independently of the code's
\* lower-casing: both names fold to the same upper-case letters
UpperLetter(c) == IF c \in 97..122 THEN c - 32 ELSE c
SameNameIgnoringCase(a, b) ==
    /\ Len(a) = Len(b)
    /\ \A i \in 1..Len(a) : UpperLetter(a[i]) = UpperLetter(b[i])

IsPrefix(s, t) == Len(s) <= Len(t) /\ s = SubSeq(t, 1, Len(s))

Done == pc = "done"
Failed == result \notin {"running", "ok"}

SceneActivation == cmd.kind = "Scene" /\ ~cmd.list
SceneCapsFetched == Len(phases) >= 2 /\ phases[2] = "lookup"
AllEnum(caps) == \A i \in 1..Len(caps) : caps[i].parameters.type = "Enum"

\* every option position of the Enum capabilities caps[1..n], in
\* capability order and then option order
RECURSIVE ScenePositions(_, _)
ScenePositions(caps, n) ==
    IF n = 0 THEN <<>>
    ELSE ScenePositions(caps, n - 1)
         \o [o \in 1..Len(caps[n].parameters.options) |-> <<n, o>>]
AllScenePositions == ScenePositions(scene_caps, Len(scene_caps))
SceneOption(pos) == scene_caps[pos[1]].parameters.options[pos[2]]

\* indices into AllScenePositions of the options the requested scene names
SceneHits ==
    {k \in 1..Len(AllScenePositions) :
        SameNameIgnoringCase(Unwrap(cmd.scene), SceneOption(AllScenePositions[k]).name)}
FirstSceneHit == CHOOSE k \in SceneHits : \A m \in SceneHits : k <= m

\* What C1 states besides the final result: examination order, the single
\* call, its target and its value
SceneFirstMatchCall ==
    LET pos == AllScenePositions[FirstSceneHit] IN
    /\ IsPrefix(examined, SubSeq(AllScenePositions, 1, FirstSceneHit))
    /\ Done =>
        /\ examined = SubSeq(AllScenePositions, 1, FirstSceneHit)
        /\ Len(calls) = 1
        /\ calls[1].cap = scene_caps[pos[1]]
        /\ calls[1].value = SceneOption(pos).value

\* C1 as stated: scene activation over Enum capabilities examines the
\* options in capability order then option order, issues exactly one control
\* call for the first case-insensitive match, with that capability and
\* value, examines nothing after it, and the run ends in success.
C1_Original ==
    (SceneActivation /\ SceneCapsFetched /\ AllEnum(scene_caps) /\ SceneHits # {}) =>
        /\ SceneFirstMatchCall
        /\ Done => result = "ok"

\* C1 amended: as above, but the run ends in success only if the control
\* call succeeds; if the call fails the run ends in that transport failure.
C1_SceneFirstMatch ==
    (SceneActivation /\ SceneCapsFetched /\ AllEnum(scene_caps) /\ SceneHits # {}) =>
        /\ SceneFirstMatchCall
        /\ Done => result = IF calls[1].ok THEN "ok" ELSE E_TRANSPORT

\* the first match lies in the second capability, a later option matches
\* as well, and the run succeeded after one call
C1_Witness ==
    /\ Done /\ SceneActivation /\ AllEnum(scene_caps)
    /\ result = "ok"
    /\ Len(calls) = 1
    /\ Len(scene_caps) >= 2
    /\ calls[1].cap = scene_caps[2]
    /\ Cardinality(SceneHits) >= 2
    /\ Len(examined) < Len(AllScenePositions)

AbsentErrors == {NoCapability(i) : i \in {"powerSwitch", "brightness", "colorTemperatureK",
                                          "colorRgb", "musicMode"}}
MismatchErrors == {E_UNEXPECTED_TYPE, UnexpectedParameterType("brightness"),
                   UnexpectedParameterType("colorTemperatureK")}
NotFoundErrors == {E_NO_ONOFF, E_NO_SCENE, E_NO_MUSICMODE_FIELD, E_NO_MODE}
ListMode == cmd.kind \in {"Scene", "Music"} /\ cmd.list

\* C2: every run makes at most one control call; a call is made only after
\* device fetch, capability lookup and value resolution succeeded, in that
\* order; a run ending in capability-absent, schema-mismatch or
\* value-not-found, or run in list mode, has made no control call.
C2_AtMostOneCall ==
    /\ Len(calls) <= 1
    /\ pc = "control" => phases = <<"fetch", "lookup", "resolve">>
    /\ calls # <<>> => phases = <<"fetch", "lookup", "resolve", "control">>
    /\ (Done /\ result \in AbsentErrors \cup MismatchErrors \cup NotFoundErrors) => calls = <<>>
    /\ ListMode => calls = <<>>

\* a scene run that made its one call although a later option matches too
C2_Witness ==
    /\ Done /\ SceneActivation /\ AllEnum(scene_caps)
    /\ Len(calls) = 1
    /\ Cardinality(SceneHits) >= 2
    /\ phases = <<"fetch", "lookup", "resolve", "control">>

\* clamp as the three cases of the claim
ClampCases(input, min, max) ==
    IF input < min THEN min ELSE IF input > max THEN max ELSE input

IntegerIntent == cmd.kind \in {"Brightness", "Temperature"}
IntegerInput == IF cmd.kind = "Brightness" THEN cmd.percent ELSE cmd.kelvin
IntegerCapFound ==
    /\ IsSome(cap)
    /\ Unwrap(cap).instance = TargetInstance(cmd)
    /\ Unwrap(cap).parameters.type = "Integer"

\* C3: for brightness (capability "brightness") and temperature (capability
\* "colorTemperatureK") and every range min <= max, the control call carries
\* clamp(input, min, max): the input when in range, min when below, max
\* when above, never rescaled.
C3_ClampedValue ==
    (Done /\ IntegerIntent /\ IntegerCapFound
        /\ Unwrap(cap).parameters.min <= Unwrap(cap).parameters.max) =>
        /\ Len(calls) = 1
        /\ calls[1].cap = Unwrap(cap)
        /\ calls[1].value = ClampCases(IntegerInput, Unwrap(cap).parameters.min,
                                       Unwrap(cap).parameters.max)

\* range [1,100], brightness input 0, value 1 sent
C3_Witness ==
    /\ Done /\ cmd.kind = "Brightness" /\ cmd.percent = 0
    /\ Len(calls) = 1
    /\ calls[1].cap.instance = "brightness"
    /\ calls[1].cap.parameters = IntegerParams(1, 100)
    /\ calls[1].value = 1

\* the data-model invariants of section 3, for one schema
DuplicateFieldName(fields) ==
    \E i, k \in 1..Len(fields) : i # k /\ fields[i].field_name = fields[k].field_name
ViolatesSchemaInvariant(parameters) ==
    \/ parameters.type = "Integer" /\ parameters.min > parameters.max
    \/ parameters.type = "Enum" /\ parameters.options = <<>>
    \/ parameters.type = "Struct" /\ DuplicateFieldName(parameters.fields)

\* C4: when the schema of the capability an intent resolves against
\* violates a data-model invariant (min > max, empty Enum, duplicated
\* Struct field name), the run ends in failure and issues no control call.
C4_InvalidSchemaFails ==
    (Done /\ cmd.kind # "Scene" /\ IsSome(cap)
        /\ ViolatesSchemaInvariant(Unwrap(cap).parameters)) =>
        /\ Failed
        /\ calls = <<>>

MusicActivation == cmd.kind = "Music" /\ ~cmd.list
MusicModeFields(parameters) ==
    {i \in 1..Len(parameters.fields) : parameters.fields[i].field_name = "musicMode"}
\* Struct with exactly one field named "musicMode", of type Enum
ValidMusicSchema(parameters) ==
    /\ parameters.type = "Struct"
    /\ Cardinality(MusicModeFields(parameters)) = 1
    /\ \A i \in MusicModeFields(parameters) : parameters.fields[i].field_type.type = "Enum"
TheMusicField == CHOOSE i \in MusicModeFields(Unwrap(cap).parameters) : TRUE
MusicOptions == Unwrap(cap).parameters.fields[TheMusicField].field_type.options
MusicHits ==
    {k \in 1..Len(MusicOptions) : SameNameIgnoringCase(MusicOptions[k].name, Unwrap(cmd.mode))}
FirstMusicHit == CHOOSE k \in MusicHits : \A m \in MusicHits : k <= m

\* the packed colour as arithmetic on the three channels
Packed(r, g, b) == r * 65536 + g * 256 + b

\* C5: music activation on a valid schema visits the options of the
\* "musicMode" field in order, halts at the first case-insensitive match,
\* and issues exactly one control call with {musicMode: that option's value,
\* sensitivity: the input unchanged, autoColor: 1 or 0, rgb: packed colour
\* or null}.
C5_MusicComposite ==
    (MusicActivation /\ IsSome(cap) /\ ValidMusicSchema(Unwrap(cap).parameters)
        /\ MusicHits # {}) =>
        /\ IsPrefix(examined, [k \in 1..FirstMusicHit |-> <<TheMusicField, k>>])
        /\ Done =>
            /\ examined = [k \in 1..FirstMusicHit |-> <<TheMusicField, k>>]
            /\ Len(calls) = 1
            /\ calls[1].cap = Unwrap(cap)
            /\ calls[1].value =
                [musicMode |-> MusicOptions[FirstMusicHit].value,
                 sensitivity |-> cmd.sensitivity,
                 autoColor |-> IF cmd.auto_color THEN 1 ELSE 0,
                 rgb |-> IF cmd.color = None THEN None
                         ELSE Some(Packed(cmd.color[1][1], cmd.color[1][2], cmd.color[1][3]))]

\* sensitivity 255 passed through, halting before a second matching option
C5_Witness ==
    /\ Done /\ MusicActivation /\ IsSome(cap) /\ ValidMusicSchema(Unwrap(cap).parameters)
    /\ Len(calls) = 1
    /\ Cardinality(MusicHits) >= 2
    /\ Len(examined) < Len(MusicOptions)
    /\ calls[1].value.sensitivity = 255
    /\ calls[1].value.autoColor = 1
    /\ calls[1].value.rgb = Some(16711808)

\* C6: music-mode resolution proceeds only for a Struct with exactly one
\* field named "musicMode" of type Enum; every other shape, and an activate
\* request matching no option, ends in failure with no control call.
C6_OtherShapesFail ==
    (Done /\ cmd.kind = "Music" /\ IsSome(cap)) =>
        /\ ~ValidMusicSchema(Unwrap(cap).parameters) => (Failed /\ calls = <<>>)
        /\ (~cmd.list /\ ValidMusicSchema(Unwrap(cap).parameters) /\ MusicHits = {}) =>
                (Failed /\ calls = <<>>)

\* the requested scene names no option of any Enum scene capability
NoSceneHit ==
    \A i \in 1..Len(scene_caps) :
        scene_caps[i].parameters.type = "Enum" =>
            \A o \in 1..Len(scene_caps[i].parameters.options) :
                ~SameNameIgnoringCase(Unwrap(cmd.scene), scene_caps[i].parameters.options[o].name)

\* C7 as stated: scene activation with a name matching no option of any
\* scene capability ends in "scene not found", after every option of every
\* scene capability has been examined, with no control call.
C7_Original ==
    (Done /\ SceneActivation /\ SceneCapsFetched /\ NoSceneHit) =>
        /\ result = E_NO_SCENE
        /\ \A i \in 1..Len(scene_caps) :
             scene_caps[i].parameters.type = "Enum" =>
                \A o \in 1..Len(scene_caps[i].parameters.options) :
                    \E k \in 1..Len(examined) : examined[k] = <<i, o>>
        /\ calls = <<>>

\* C7 amended: when every scene capability is an Enum, an unmatched name
\* ends in "scene not found" after every option of every capability has
\* been examined, with no control call; when some capability is not an
\* Enum, the run ends in "unexpected type" instead, also with no call.
C7_SceneNotFound ==
    (Done /\ SceneActivation /\ SceneCapsFetched /\ NoSceneHit) =>
        /\ calls = <<>>
        /\ IF AllEnum(scene_caps)
           THEN /\ result = E_NO_SCENE
                /\ examined = AllScenePositions
           ELSE result = E_UNEXPECTED_TYPE

\* two Enum capabilities, three or more options examined, none matches
C7_Witness ==
    /\ Done /\ SceneActivation /\ SceneCapsFetched /\ NoSceneHit
    /\ AllEnum(scene_caps)
    /\ Len(scene_caps) >= 2
    /\ Len(examined) >= 3
    /\ examined = AllScenePositions
    /\ result = E_NO_SCENE

PowerIntent == cmd.kind \in {"On", "Off"}
PowerWord == IF cmd.kind = "On" THEN s_on ELSE s_off
PowerEnumFound ==
    /\ IsSome(cap)
    /\ Unwrap(cap).instance = "powerSwitch"
    /\ Unwrap(cap).parameters.type = "Enum"
PowerExactHits ==
    {k \in 1..Len(Unwrap(cap).parameters.options) :
        Unwrap(cap).parameters.options[k].name = PowerWord}

\* C8: the power intent matches the literal "on"/"off" in exact case (an
\* option named "On" alone makes `on` fail without a control call), while
\* scene and music requests match case-insensitively and lead to a control
\* call carrying the matched option's value.
C8_CaseAsymmetry ==
    /\ (Done /\ PowerIntent /\ PowerEnumFound) =>
          IF PowerExactHits = {}
          THEN result = E_NO_ONOFF /\ calls = <<>>
          ELSE /\ Len(calls) = 1
               /\ \E k \in PowerExactHits :
                    calls[1].value = Unwrap(cap).parameters.options[k].value
    /\ (Done /\ SceneActivation /\ SceneCapsFetched /\ AllEnum(scene_caps)
            /\ SceneHits # {}) =>
          /\ Len(calls) = 1
          /\ \E k \in SceneHits : calls[1].value = SceneOption(AllScenePositions[k]).value
    /\ (Done /\ MusicActivation /\ IsSome(cap) /\ ValidMusicSchema(Unwrap(cap).parameters)
            /\ MusicHits # {}) =>
          /\ Len(calls) = 1
          /\ \E k \in MusicHits : calls[1].value.musicMode = MusicOptions[k].value

\* request "ON" answered with the value of an option named "on"
C8_Witness ==
    /\ Done /\ SceneActivation /\ AllEnum(scene_caps)
    /\ cmd.scene = Some(s_ON)
    /\ Len(calls) = 1
    /\ \E k \in SceneHits :
        /\ SceneOption(AllScenePositions[k]).name = s_on
        /\ calls[1].value = SceneOption(AllScenePositions[k]).value

\* C9: the colour intent sends (r << 16) | (g << 8) | b, a value in
\* 0..2^24-1 determined by r, g, b alone; the rgb key of the music
\* composite is packed the same way.
C9_PackedColor ==
    /\ (Done /\ cmd.kind = "Color" /\ IsSome(cap)) =>
          /\ Len(calls) = 1
          /\ calls[1].cap.instance = "colorRgb"
          /\ calls[1].value = Packed(cmd.color[1], cmd.color[2], cmd.color[3])
          /\ calls[1].value \in 0..16777215
    /\ (cmd.kind = "Music" /\ calls # <<>> /\ cmd.color # None) =>
          calls[1].value.rgb =
              Some(Packed(cmd.color[1][1], cmd.color[1][2], cmd.color[1][3]))

\* (255, 0, 128) with alpha 0 sent as 0xFF0080
C9_Witness ==
    /\ Done /\ cmd.kind = "Color"
    /\ cmd.color = <<255, 0, 128, 0>>
    /\ Len(calls) = 1
    /\ calls[1].value = 16711808

\* names of all options of the Enum capabilities caps[1..n], in order
RECURSIVE SceneNames(_, _)
SceneNames(caps, n) ==
    IF n = 0 THEN <<>>
    ELSE SceneNames(caps, n - 1)
         \o [o \in 1..Len(caps[n].parameters.options) |-> caps[n].parameters.options[o].name]

\* C10: with the list flag set, the scene intent prints every option of
\* every Enum scene capability, makes no control call, and ends in "scene
\* not found" when a name was supplied (even a listed one) and in success
\* otherwise; the music intent prints every mode, makes no control call and
\* ends in success with or without a name.
C10_ListWithName ==
    /\ (Done /\ cmd.kind = "Scene" /\ cmd.list /\ SceneCapsFetched /\ AllEnum(scene_caps)) =>
          /\ printed = SceneNames(scene_caps, Len(scene_caps))
          /\ calls = <<>>
          /\ result = IF cmd.scene # None THEN E_NO_SCENE ELSE "ok"
    /\ (Done /\ cmd.kind = "Music" /\ cmd.list /\ IsSome(cap)
            /\ ValidMusicSchema(Unwrap(cap).parameters)) =>
          /\ printed = [k \in 1..Len(MusicOptions) |-> MusicOptions[k].name]
          /\ calls = <<>>
          /\ result = "ok"

\* a listed scene was also requested by its exact name
C10_Witness ==
    /\ Done /\ cmd.kind = "Scene" /\ cmd.list /\ cmd.scene # None
    /\ AllEnum(scene_caps)
    /\ Len(printed) >= 2
    /\ \E k \in 1..Len(printed) : printed[k] = Unwrap(cmd.scene)
    /\ calls = <<>>
    /\ result = E_NO_SCENE
====
